---- MODULE Spec2Model ----
(***************************************************************************)
(* lai (LuckyGeck/lai): the translation window of app/app.go.              *)
(*                                                                         *)
(* The state is the App's bindings (input, result, status) and, for every  *)
(* call of streamTranslateWithOllama, the                                   *)
(* goroutine's position, its locals (stopTick, ctx, resp, decoder,         *)
(* fullResponse) and its ticker goroutine.  The Ollama server is the       *)
(* environment: it answers a request with a status code and a body, a      *)
(* sequence of frames that ends in a clean EOF or in a broken connection.  *)
(*                                                                         *)
(* Texts are sequences of characters.  json.Marshal of a struct of strings *)
(* and http.NewRequestWithContext with the constant method and URL cannot  *)
(* fail, so the two returns at app.go:277-280 and 286-289 have no action;   *)
(* nor has the return at 187-190, Get of a plain string binding not        *)
(* failing.  The elapsed time a ticker line shows is left out; a status    *)
(* line carries the number of the call that wrote it instead.              *)
(*                                                                         *)
(* The model dropdown (modelName, the dropdown's options, the goroutines of *)
(* refreshModelDropdown), getSelectedTextWithCopy with the system clipboard *)
(* and the non-streaming translateWithOllama are modelled next to it.      *)
(*                                                                         *)
(* Spec is the translation window, calls overlapping at will.  SpecOne is  *)
(* a run with a single call, whose response body is as long as MaxBody.    *)
(* SpecTwo is two overlapping calls; SpecFair is the same under the        *)
(* scheduler's fairness.  SpecModels is the model dropdown, SpecClip the   *)
(* calls of getSelectedTextWithCopy, SpecNonStream the calls of            *)
(* translateWithOllama.                                                    *)
(***************************************************************************)
EXTENDS Integers, Sequences, FiniteSets, TLC

\* ------------------------------------------------------------------ bounds

\* Calls of streamTranslateWithOllama in one run.
MaxReq == 2
\* Frames in a response body when one call is made (SpecOne).
MaxBody == 3
\* Frames in the response bodies of one run, all calls together (Spec).
MaxFrames == 1
\* Frames in the response bodies of two overlapping calls together (SpecTwo).
MaxTwo == 2
\* Models the server lists.
MaxModels == 2
\* Characters in the "response" field of a non-streaming answer.
MaxStr == 5
\* Goroutines of refreshModelDropdown waiting for their fetch at one time.
MaxFetch == 2

\* ---------------------------------------------------------------- constants

\* http.StatusOK
StatusOK == 200

Req == 1..MaxReq

\* Fragments a frame's "response" field carries.
Frag == {<<"a">>, <<"b">>}
\* What the user types or copies: nothing, or some text.
Texts == {<<>>, <<"x">>}
\* Status codes the server answers with: 200, another 2xx, and an error.
StatusCodes == {200, 201, 500}

\* One unit of the response body: a JSON object {"response":..,"done":..},
\* or bytes that are not valid JSON.
BadFrame == [kind |-> "bad", response |-> <<>>, done |-> FALSE]
JsonFrames == {[kind |-> "json", response |-> f, done |-> d] : f \in Frag, d \in BOOLEAN}
Frames == JsonFrames \cup {BadFrame}
Streams(n) == UNION {[1..k -> Frames] : k \in 0..n}

\* What the clipboard or the selection holds: nothing, or one of two texts.
ClipTexts == {<<>>, <<"x">>, <<"y">>}

\* defaultModel
DefaultModel == "gemma3n:e4b"
\* Model names: the default, another one, and the empty name.
Models == {DefaultModel, "llama3", ""}
\* The "models" array of an answer of /api/tags, by name.
ModelLists == UNION {[1..k -> Models] : k \in 0..MaxModels}
\* What the server does with GET /api/tags: no answer (a transport error), or a
\* status code and a body that is the JSON of a model list or is not JSON.
TagsAnswers == [doErr : {TRUE}, code : {0}, json : {FALSE}, names : {<<>>}]
               \cup [doErr : {FALSE}, code : StatusCodes, json : BOOLEAN, names : ModelLists]

\* Characters of a non-streaming response: two white-space ones and a letter.
Chars == {" ", "\n", "a"}
Strs == UNION {[1..k -> Chars] : k \in 0..MaxStr}
\* What the server does with a non-streaming POST /api/generate: no answer (a
\* transport error), or a status code and a body that is one JSON object with a
\* "response" field or is not JSON.
GenerateAnswers ==
    [doErr : {TRUE}, code : {0}, json : {FALSE}, response : {<<>>}]
    \cup [doErr : {FALSE}, code : StatusCodes, json : {FALSE}, response : {<<>>}]
    \cup [doErr : {FALSE}, code : StatusCodes, json : {TRUE}, response : Strs]

\* What a read of the body past its last frame returns: io.EOF after a clean
\* close, io.ErrUnexpectedEOF after a broken connection.
Endings == {"EOF", "unexpected EOF"}

\* ------------------------------------------------------------------- state

VARIABLES
    input,      \* a.input: the text of the input entry
    result,     \* a.result: the text of the translation entry (the result sink)
    status,     \* a.status: the status label (the status sink)
    nextReq,    \* the number of the next call of streamTranslateWithOllama
    pc,         \* per call: where the goroutine is
    text,       \* per call: the argument text
    stopTick,   \* per call: the stopTick channel: "nil", "open", "closed"
    tick,       \* per call: the ticker goroutine: "none", "running", "exited"
    ctxDone,    \* per call: the 30 s deadline of ctx has fired
    issued,     \* per call: client.Do was called (a network call was made)
    code,       \* per call: resp.StatusCode (0 before a response)
    wire,       \* per call: the frames of resp.Body, those that arrive before it ends
    buffered,   \* per call: frames the decoder has read from resp.Body
    pos,        \* per call: frames the decoder has returned
    acc,        \* per call: fullResponse
    delivered,  \* per call: the texts passed to a.result.Set, in order
    outcome,    \* per call: "none", "inprogress", "done", "failed"
    final,      \* per call: the failure status the call wrote (NoStatus if none)
    lastErr,    \* per call: the last error decoder.Decode returned ("" if none)
    modelName,  \* a.modelName
    options,    \* a.modelDropdown.Options
    selected,   \* a.modelDropdown.Selected
    fetching,   \* the goroutines of refreshModelDropdown waiting for their fetch
    fetched,    \* what the last fetch returned, and a.modelName as it was then
    clipboard,  \* the system clipboard
    gsPc,       \* getSelectedTextWithCopy: "idle", "copying", "reading"
    originalClip, \* getSelectedTextWithCopy: its local originalClip
    clipEntry,  \* the clipboard as it was when getSelectedTextWithCopy was called
    gsRet,      \* what getSelectedTextWithCopy returned last
    nsAnswer,   \* what the server answered the last call of translateWithOllama
    nsRet       \* what translateWithOllama returned last

vars == <<input, result, status, nextReq, pc, text, stopTick, tick,
          ctxDone, issued, code, wire, buffered, pos, acc, delivered,
          outcome, final, lastErr, modelName, options, selected, fetching,
          fetched, clipboard, gsPc, originalClip, clipEntry, gsRet, nsAnswer,
          nsRet>>

uiVars == <<input, result, status>>
reqVars == <<nextReq, pc, text, stopTick, tick, ctxDone, issued, code, wire,
             buffered, pos, acc, delivered, outcome, final, lastErr>>
modelVars == <<modelName, options, selected, fetching, fetched>>
clipVars == <<clipboard, gsPc, originalClip, clipEntry, gsRet>>
nsVars == <<nsAnswer, nsRet>>
\* What the translation window's handlers and the streaming call leave alone.
shellVars == <<modelVars, clipVars, nsVars>>

\* ------------------------------------------------------------ status texts

\* A status line: the format string of the setStatus call, the call of
\* streamTranslateWithOllama that wrote it (0: a UI handler), the status code
\* and the error text formatted into it.
Msg(m, r, c, d) == [msg |-> m, req |-> r, code |-> c, detail |-> d]
NoStatus == Msg("", 0, 0, "")

\* a.setStatus(format, args...): the label shows the formatted line.
setStatus(line) == line

\* ------------------------------------------------------------------- Init

\* No fetch has returned yet.
NoFetch == [err |-> "none", models |-> <<>>, was |-> ""]
\* No call has returned yet.
NoReturn == [text |-> <<>>, err |-> "none"]
\* No call of translateWithOllama was answered yet.
NoAnswer == [doErr |-> FALSE, code |-> 0, json |-> FALSE, response |-> <<>>]

\* New and setupApp have run: the window shows an empty input and result, the
\* dropdown holds the default model, and the goroutine of the refresh that
\* setupApp starts has written its first status line and waits for its fetch.
Init ==
    /\ input = <<>>
    /\ result = <<>>
    /\ status = Msg("Loading available models...", 0, 0, "")
    /\ nextReq = 1
    /\ pc = [r \in Req |-> "none"]
    /\ text = [r \in Req |-> <<>>]
    /\ stopTick = [r \in Req |-> "nil"]
    /\ tick = [r \in Req |-> "none"]
    /\ ctxDone = [r \in Req |-> FALSE]
    /\ issued = [r \in Req |-> FALSE]
    /\ code = [r \in Req |-> 0]
    /\ wire = [r \in Req |-> <<>>]
    /\ buffered = [r \in Req |-> 0]
    /\ pos = [r \in Req |-> 0]
    /\ acc = [r \in Req |-> <<>>]
    /\ delivered = [r \in Req |-> <<>>]
    /\ outcome = [r \in Req |-> "none"]
    /\ final = [r \in Req |-> NoStatus]
    /\ lastErr = [r \in Req |-> ""]
    /\ modelName = DefaultModel
    /\ options = <<DefaultModel>>
    /\ selected = DefaultModel
    /\ fetching = 1
    /\ fetched = NoFetch
    /\ clipboard = <<>>
    /\ gsPc = "idle"
    /\ originalClip = <<>>
    /\ clipEntry = <<>>
    /\ gsRet = NoReturn
    /\ nsAnswer = NoAnswer
    /\ nsRet = NoReturn

\* --------------------------------------------------------- pure helpers

Min(a, b) == IF a < b THEN a ELSE b

RECURSIVE Concat(_)
\* The fragments of a sequence of frames, concatenated in order: what the
\* claims compare the builder's text with.
Concat(fs) == IF fs = <<>> THEN <<>> ELSE Concat(SubSeq(fs, 1, Len(fs) - 1)) \o fs[Len(fs)].response

RECURSIVE TotalFrames(_)
\* The frames on the wires of the calls in S (what MaxFrames bounds).
TotalFrames(S) == IF S = {} THEN 0 ELSE LET r == CHOOSE x \in S : TRUE IN Len(wire[r]) + TotalFrames(S \ {r})

\* if text == "" (app.go:202)
isEmptyText(t) == t = <<>>

\* A status check that lets every answer at or above 200 through.
statusIsOKFrom200(c) == c >= StatusOK

\* resp.StatusCode != http.StatusOK, negated (app.go:301)
statusIsOK(c) == c = StatusOK

\* A loop that breaks on any error of Decode, as on EOF.
isEOFAnyError(err) == TRUE

\* A loop that knows no end of stream: every error of Decode is a failure.
isEOFNever(err) == FALSE

\* err.Error() == "EOF" (app.go:313)
isEOF(err) == err = "EOF"

\* A builder that puts the chunk in front of what it holds.
WriteStringFront(b, s) == s \o b

\* A builder that keeps the last chunk only.
WriteStringLast(b, s) == s

\* A call that keeps its text in the result entry all calls share, not in a
\* builder of its own.
WriteStringShared(b, s) == result \o s

\* fullResponse.WriteString(ollamaResp.Response) (app.go:321)
WriteString(b, s) == b \o s

\* A loop that never looks at the done flag.
frameDoneIgnored(f) == FALSE

\* if ollamaResp.Done (app.go:326)
frameDone(f) == f.done

\* decoder.Decode(&ollamaResp) (app.go:312) on a body w whose end reads as e, with p
\* frames returned and b frames read so far, dl the state of ctx, and k the
\* frames the next read of the body brings.  A json.Decoder returns the next
\* value of its buffer without reading the body; it reads the body only when
\* the buffer holds no complete value, and that read fails once ctx is done.
\* The result: err ("" for none), the frame, and the frames read from the body.
Decode(w, e, p, b, dl, k) ==
    LET item(nb) == IF w[p + 1].kind = "bad"
                    THEN [err |-> "invalid character", frame |-> BadFrame, buffered |-> nb]
                    ELSE [err |-> "", frame |-> w[p + 1], buffered |-> nb]
    IN  IF p < b THEN item(b)
        ELSE IF dl THEN [err |-> "context deadline exceeded", frame |-> BadFrame, buffered |-> b]
        ELSE IF p = Len(w)
             THEN [err |-> e, frame |-> BadFrame, buffered |-> b]
        ELSE item(Min(p + k, Len(w)))

\* ------------------------------------------------------------ UI handlers

\* go a.streamTranslateWithOllama(t), as call number nextReq: the goroutine makes
\* stopTick, starts its ticker goroutine and builds the request and ctx.
Spawn(t) ==
    /\ nextReq <= MaxReq
    /\ pc' = [pc EXCEPT ![nextReq] = "do"]
    /\ text' = [text EXCEPT ![nextReq] = t]
    /\ stopTick' = [stopTick EXCEPT ![nextReq] = "open"]
    /\ tick' = [tick EXCEPT ![nextReq] = "running"]
    /\ outcome' = [outcome EXCEPT ![nextReq] = "inprogress"]
    /\ nextReq' = nextReq + 1
    /\ UNCHANGED <<ctxDone, issued, code, wire, buffered, pos, acc, delivered,
                   final, lastErr>>

\* The user edits the input entry.
TypeInput(t) ==
    /\ UNCHANGED shellVars
    /\ input' = t
    /\ UNCHANGED <<result, status>>
    /\ UNCHANGED reqVars

\* The Translate button.
translateInputText ==
    /\ UNCHANGED shellVars
    /\ status' = setStatus(Msg("Translating input text...", 0, 0, ""))
    /\ result' = <<>>
    /\ Spawn(input)
    /\ UNCHANGED input

\* The Translate Clipboard button and the Shift+Option+C shortcut; clip is what
\* the system clipboard holds and readErr whether clipboard.ReadAll fails.  The
\* handler's first line, "Getting clipboard text...", is overwritten before it
\* returns.
translateClipboardText(clip, readErr) ==
    /\ UNCHANGED shellVars
    /\ IF readErr
       THEN /\ status' = setStatus(Msg("Error reading clipboard: %v", 0, 0, "clipboard"))
            /\ UNCHANGED <<input, result>>
            /\ UNCHANGED reqVars
       ELSE IF isEmptyText(clip)
       THEN /\ status' = setStatus(Msg("Clipboard is empty.", 0, 0, ""))
            /\ UNCHANGED <<input, result>>
            /\ UNCHANGED reqVars
       ELSE /\ status' = setStatus(Msg("Translating clipboard text...", 0, 0, ""))
            /\ result' = <<>>
            /\ input' = clip
            /\ Spawn(clip)

\* ------------------------------------------- streamTranslateWithOllama

\* The call writes its failure status and heads for its return.
Fail(r, line) ==
    /\ status' = setStatus(line)
    /\ final' = [final EXCEPT ![r] = line]
    /\ outcome' = [outcome EXCEPT ![r] = "failed"]
    /\ pc' = [pc EXCEPT ![r] = "returning"]

\* The 30 s deadline of ctx passes while the exchange is in flight.
DeadlineFires(r) ==
    /\ UNCHANGED shellVars
    /\ pc[r] \in {"do", "stream"}
    /\ ~ctxDone[r]
    /\ ctxDone' = [ctxDone EXCEPT ![r] = TRUE]
    /\ UNCHANGED uiVars
    /\ UNCHANGED <<nextReq, pc, text, stopTick, tick, issued, code, wire,
                   buffered, pos, acc, delivered, outcome, final, lastErr>>

\* client.Do returns an error: the deadline passed, or no server answers.
DoError(r) ==
    /\ UNCHANGED shellVars
    /\ pc[r] = "do"
    /\ issued' = [issued EXCEPT ![r] = TRUE]
    /\ Fail(r, Msg("Failed to make request to Ollama: %v", r, 0,
                   IF ctxDone[r] THEN "context deadline exceeded" ELSE "connection refused"))
    /\ UNCHANGED <<input, result>>
    /\ UNCHANGED <<nextReq, text, stopTick, tick, ctxDone, code, wire,
                   buffered, pos, acc, delivered, lastErr>>

\* client.Do returns the server's response, with status code c and body w;
\* the call checks the status code.
DoResponse(r, c, w) ==
    /\ UNCHANGED shellVars
    /\ pc[r] = "do"
    /\ ~ctxDone[r]
    /\ issued' = [issued EXCEPT ![r] = TRUE]
    /\ code' = [code EXCEPT ![r] = c]
    /\ wire' = [wire EXCEPT ![r] = w]
    /\ IF ~statusIsOK(c)
       THEN Fail(r, Msg("Ollama returned status %d", r, c, ""))
       ELSE /\ pc' = [pc EXCEPT ![r] = "stream"]
            /\ UNCHANGED <<status, final, outcome>>
    /\ UNCHANGED <<input, result>>
    /\ UNCHANGED <<nextReq, text, stopTick, tick, ctxDone, buffered, pos, acc,
                   delivered, lastErr>>

\* One turn of the decode loop; k and e are what the network does (see Decode).
DecodeStep(r, k, e) ==
    /\ UNCHANGED shellVars
    /\ pc[r] = "stream"
    /\ LET d == Decode(wire[r], e, pos[r], buffered[r], ctxDone[r], k) IN
       /\ buffered' = [buffered EXCEPT ![r] = d.buffered]
       /\ lastErr' = [lastErr EXCEPT ![r] = d.err]
       /\ IF d.err # ""
          THEN /\ IF isEOF(d.err)
                  THEN /\ pc' = [pc EXCEPT ![r] = "returning"]
                       /\ outcome' = [outcome EXCEPT ![r] = "done"]
                       /\ UNCHANGED <<status, final>>
                  ELSE Fail(r, Msg("Failed to decode response: %v", r, 0, d.err))
               /\ UNCHANGED <<result, pos, acc, delivered>>
          ELSE LET full == WriteString(acc[r], d.frame.response) IN
               /\ acc' = [acc EXCEPT ![r] = full]
               /\ result' = full
               /\ delivered' = [delivered EXCEPT ![r] = Append(@, full)]
               /\ pos' = [pos EXCEPT ![r] = @ + 1]
               /\ IF frameDone(d.frame)
                  THEN /\ pc' = [pc EXCEPT ![r] = "returning"]
                       /\ outcome' = [outcome EXCEPT ![r] = "done"]
                  ELSE UNCHANGED <<pc, outcome>>
               /\ UNCHANGED <<status, final>>
    /\ UNCHANGED input
    /\ UNCHANGED <<nextReq, text, stopTick, tick, ctxDone, issued, code, wire>>

\* A return that leaves stopTick open: no deferred close.
ReturnWithoutClose(r) ==
    /\ UNCHANGED shellVars
    /\ pc[r] = "returning"
    /\ pc' = [pc EXCEPT ![r] = "returned"]
    /\ UNCHANGED uiVars
    /\ UNCHANGED <<nextReq, text, stopTick, tick, ctxDone, issued, code, wire, buffered,
                   pos, acc, delivered, outcome, final, lastErr>>

\* The call returns: the deferred close(stopTick) runs.
Return(r) ==
    /\ UNCHANGED shellVars
    /\ pc[r] = "returning"
    /\ pc' = [pc EXCEPT ![r] = "returned"]
    /\ stopTick' = [stopTick EXCEPT ![r] = "closed"]
    /\ UNCHANGED uiVars
    /\ UNCHANGED <<nextReq, text, tick, ctxDone, issued, code, wire, buffered,
                   pos, acc, delivered, outcome, final, lastErr>>

\* ----------------------------------------------------- the ticker goroutine

\* The select takes a tick: the goroutine writes the elapsed time.  When
\* stopTick is closed and a tick is waiting too, select picks either case.
TickerTick(r) ==
    /\ UNCHANGED shellVars
    /\ tick[r] = "running"
    /\ status' = setStatus(Msg("Translating... %.1fs", r, 0, ""))
    /\ UNCHANGED <<input, result>>
    /\ UNCHANGED reqVars

\* The select takes the closed stopTick: the goroutine returns.
TickerStop(r) ==
    /\ UNCHANGED shellVars
    /\ tick[r] = "running"
    /\ stopTick[r] = "closed"
    /\ tick' = [tick EXCEPT ![r] = "exited"]
    /\ UNCHANGED uiVars
    /\ UNCHANGED <<nextReq, pc, text, stopTick, ctxDone, issued, code, wire,
                   buffered, pos, acc, delivered, outcome, final, lastErr>>

\* ------------------------------------------------------ the model dropdown

Range(f) == {f[i] : i \in DOMAIN f}

\* fetchAvailableModels on the server's answer: the names listed, or an error.
fetchAvailableModels(ans) ==
    IF ans.doErr THEN [models |-> <<>>, err |-> "failed to make request to Ollama"]
    ELSE IF ans.code # StatusOK THEN [models |-> <<>>, err |-> "ollama returned status %d"]
    ELSE IF ~ans.json THEN [models |-> <<>>, err |-> "failed to decode response"]
    ELSE [models |-> ans.names, err |-> ""]

\* A search that never finds the name.
hasModelNever(models, name) == FALSE

\* for _, model := range models { if model == a.modelName ... (app.go:394-400)
hasModel(models, name) == \E i \in DOMAIN models : models[i] = name

\* The dropdown's callback, called with the option sel: a.modelName and the
\* status line it leaves, given the ones it finds.
changedModel(sel, name) == IF sel # "" THEN sel ELSE name
changedStatus(sel, line) == IF sel # "" THEN Msg("Model changed to: %s", 0, 0, sel) ELSE line

\* The Refresh button: the goroutine of refreshModelDropdown starts, writes its
\* first status line and calls fetchAvailableModels.
refreshModelDropdown ==
    /\ fetching < MaxFetch
    /\ fetching' = fetching + 1
    /\ status' = setStatus(Msg("Loading available models...", 0, 0, ""))
    /\ UNCHANGED <<input, result, modelName, options, selected, fetched>>
    /\ UNCHANGED <<reqVars, clipVars, nsVars>>

\* fetchAvailableModels returns in a goroutine of refreshModelDropdown, the
\* server having answered ans, and the goroutine runs to its end.  SetSelected
\* of an option of the dropdown sets Selected and calls the callback.
fetchReturns(ans) ==
    /\ fetching > 0
    /\ fetching' = fetching - 1
    /\ LET f == fetchAvailableModels(ans) IN
       /\ fetched' = [err |-> f.err, models |-> f.models, was |-> modelName]
       /\ IF f.err # ""
          THEN /\ options' = <<modelName>>
               /\ selected' = modelName
               /\ modelName' = changedModel(modelName, modelName)
               /\ status' = changedStatus(modelName,
                                setStatus(Msg("Failed to load models: %v", 0, 0, f.err)))
          ELSE IF Len(f.models) = 0
          THEN /\ status' = setStatus(Msg("No models found on Ollama server", 0, 0, ""))
               /\ UNCHANGED <<modelName, options, selected>>
          ELSE /\ options' = f.models
               /\ IF hasModel(f.models, modelName)
                  THEN /\ selected' = modelName
                       /\ modelName' = changedModel(modelName, modelName)
                  ELSE /\ selected' = f.models[1]
                       /\ modelName' = changedModel(f.models[1], f.models[1])
               /\ status' = setStatus(Msg("Loaded %d models from Ollama server", 0,
                                          Len(f.models), ""))
    /\ UNCHANGED <<input, result>>
    /\ UNCHANGED <<reqVars, clipVars, nsVars>>

\* The user picks the option m of the dropdown.
selectModel(m) ==
    /\ m \in Range(options)
    /\ selected' = m
    /\ modelName' = changedModel(m, modelName)
    /\ status' = changedStatus(m, status)
    /\ UNCHANGED <<input, result, options, fetching, fetched>>
    /\ UNCHANGED <<reqVars, clipVars, nsVars>>

\* The Save button of the settings window, its entry holding m.
saveSettings(m) ==
    /\ modelName' = m
    /\ status' = setStatus(Msg("Settings saved. Using model: %s", 0, 0, m))
    /\ UNCHANGED <<input, result, options, selected, fetching, fetched>>
    /\ UNCHANGED <<reqVars, clipVars, nsVars>>

\* ------------------------------------------------ getSelectedTextWithCopy

\* The user copies t in some application (or empties the clipboard) while no call
\* of getSelectedTextWithCopy runs.
copyElsewhere(t) ==
    /\ gsPc = "idle"
    /\ clipboard' = t
    /\ UNCHANGED <<gsPc, originalClip, clipEntry, gsRet>>
    /\ UNCHANGED <<uiVars, reqVars, modelVars, nsVars>>

\* getSelectedTextWithCopy is called: it saves the clipboard (an error of ReadAll
\* is dropped, originalClip then being empty), empties it and starts osascript.
getSelectedTextWithCopy(readErr) ==
    /\ gsPc = "idle"
    /\ clipEntry' = clipboard
    /\ originalClip' = IF readErr THEN <<>> ELSE clipboard
    /\ clipboard' = <<>>
    /\ gsPc' = "copying"
    /\ UNCHANGED gsRet
    /\ UNCHANGED <<uiVars, reqVars, modelVars, nsVars>>

\* cmd.Run returns: osascript failed, or its Cmd+C has copied the selection sel
\* (nothing selected: the clipboard stays as it is).
cmdRun(sel, cmdErr) ==
    /\ gsPc = "copying"
    /\ IF cmdErr
       THEN /\ gsRet' = [text |-> <<>>, err |-> "failed to copy text"]
            /\ gsPc' = "idle"
            /\ UNCHANGED clipboard
       ELSE /\ clipboard' = IF sel = <<>> THEN clipboard ELSE sel
            /\ gsPc' = "reading"
            /\ UNCHANGED gsRet
    /\ UNCHANGED <<originalClip, clipEntry>>
    /\ UNCHANGED <<uiVars, reqVars, modelVars, nsVars>>

\* After the sleep: the copied text is read, the saved content is written back
\* if it is not empty, and the call returns.
readCopied(readErr) ==
    /\ gsPc = "reading"
    /\ IF readErr
       THEN /\ gsRet' = [text |-> <<>>, err |-> "failed to read clipboard"]
            /\ UNCHANGED clipboard
       ELSE /\ gsRet' = [text |-> clipboard, err |-> ""]
            /\ clipboard' = IF originalClip # <<>> THEN originalClip ELSE clipboard
    /\ gsPc' = "idle"
    /\ UNCHANGED <<originalClip, clipEntry>>
    /\ UNCHANGED <<uiVars, reqVars, modelVars, nsVars>>

\* ------------------------------------------------------ translateWithOllama

\* unicode.IsSpace, on the characters of one byte.
isSpace(c) == c \in {" ", "\t", "\n", "\r", "\f"}

RECURSIVE TrimLeft(_)
TrimLeft(s) == IF s # <<>> /\ isSpace(Head(s)) THEN TrimLeft(Tail(s)) ELSE s

RECURSIVE TrimRight(_)
TrimRight(s) == IF s # <<>> /\ isSpace(s[Len(s)]) THEN TrimRight(SubSeq(s, 1, Len(s) - 1)) ELSE s

\* A trim of the leading white space only.
TrimSpaceLeftOnly(s) == TrimLeft(s)

\* strings.TrimSpace
TrimSpace(s) == TrimRight(TrimLeft(s))

\* translateWithOllama, the non-streaming call (stream: false), the server
\* answering ans: the text and the error it returns.
translateWithOllama(ans) ==
    /\ nsAnswer' = ans
    /\ nsRet' = IF ans.doErr
                THEN [text |-> <<>>, err |-> "failed to make request to Ollama"]
                ELSE IF ans.code # StatusOK
                THEN [text |-> <<>>, err |-> "Ollama returned status %d"]
                ELSE IF ~ans.json
                THEN [text |-> <<>>, err |-> "failed to decode response"]
                ELSE [text |-> TrimSpace(ans.response), err |-> ""]
    /\ UNCHANGED <<uiVars, reqVars, modelVars, clipVars>>

\* ------------------------------------------------------------------- Next

\* What the goroutines and the network do once a response is in.
Run ==
    \/ \E r \in Req : DeadlineFires(r)
    \/ \E r \in Req : DoError(r)
    \/ \E r \in Req, k \in 1..MaxBody, e \in Endings : DecodeStep(r, k, e)
    \/ \E r \in Req : Return(r)
    \/ \E r \in Req : TickerTick(r)
    \/ \E r \in Req : TickerStop(r)

\* The application: the user starts translations at will, also while earlier
\* ones are in flight; the response bodies of a run hold MaxFrames frames in all.
Next ==
    \/ \E t \in Texts : TypeInput(t)
    \/ translateInputText
    \/ \E clip \in Texts, readErr \in BOOLEAN : translateClipboardText(clip, readErr)
    \/ \E r \in Req :
          /\ pc[r] = "do"
          /\ \E c \in StatusCodes, w \in Streams(MaxFrames - TotalFrames(Req)) : DoResponse(r, c, w)
    \/ Run

Spec == Init /\ [][Next]_vars

\* The response bodies of up to MaxBody frames.
BodiesOne == Streams(MaxBody)

\* One translation: the user starts a single call, and the response body holds
\* up to MaxBody frames.
NextOne ==
    \/ \E t \in Texts : TypeInput(t)
    \/ nextReq = 1 /\ translateInputText
    \/ nextReq = 1 /\ \E clip \in Texts, readErr \in BOOLEAN : translateClipboardText(clip, readErr)
    \/ \E r \in Req :
          /\ pc[r] = "do"
          /\ \E c \in StatusCodes, w \in BodiesOne : DoResponse(r, c, w)
    \/ Run

SpecOne == Init /\ [][NextOne]_vars

\* Two overlapping translations: the user presses Translate twice, and the two
\* response bodies hold MaxTwo frames in all.
NextTwo ==
    \/ nextReq <= 2 /\ translateInputText
    \/ \E r \in Req :
          /\ pc[r] = "do"
          /\ \E c \in StatusCodes, w \in Streams(MaxTwo - TotalFrames(Req)) : DoResponse(r, c, w)
    \/ Run

SpecTwo == Init /\ [][NextTwo]_vars

\* The Go scheduler runs every goroutine that can run: a call that has reached
\* its return returns, and a ticker whose select finds stopTick closed takes
\* that case sooner or later (select chooses at random among the ready cases).
Fairness == \A r \in Req : WF_vars(Return(r)) /\ WF_vars(TickerStop(r))

\* Two overlapping translations under that scheduling, the two response bodies
\* holding MaxFrames frames in all.
NextFair ==
    \/ nextReq <= 2 /\ translateInputText
    \/ \E r \in Req :
          /\ pc[r] = "do"
          /\ \E c \in StatusCodes, w \in Streams(MaxFrames - TotalFrames(Req)) : DoResponse(r, c, w)
    \/ Run

SpecFair == Init /\ [][NextFair]_vars /\ Fairness

\* The model dropdown: refreshes, and the user choosing a model in the dropdown
\* or in the settings window.
NextModels ==
    \/ refreshModelDropdown
    \/ \E ans \in TagsAnswers : fetchReturns(ans)
    \/ \E m \in Models : selectModel(m)
    \/ \E m \in Models : saveSettings(m)

SpecModels == Init /\ [][NextModels]_vars

\* Calls of getSelectedTextWithCopy, the user copying texts between them.
NextClip ==
    \/ \E t \in ClipTexts : copyElsewhere(t)
    \/ \E readErr \in BOOLEAN : getSelectedTextWithCopy(readErr)
    \/ \E sel \in ClipTexts, cmdErr \in BOOLEAN : cmdRun(sel, cmdErr)
    \/ \E readErr \in BOOLEAN : readCopied(readErr)

SpecClip == Init /\ [][NextClip]_vars

\* Calls of the non-streaming translateWithOllama.
NextNonStream == \E ans \in GenerateAnswers : translateWithOllama(ans)

SpecNonStream == Init /\ [][NextNonStream]_vars

\* ----------------------------------------------------------------- claims

\* The call has reached a terminal state.
Terminal(r) == outcome[r] \in {"done", "failed"}

\* A well-formed stream that ends in done=true: JSON frames only, the last one
\* done and no earlier one.
WellFormed(w) ==
    /\ Len(w) >= 1
    /\ \A i \in 1..Len(w) : w[i].kind = "json" /\ (w[i].done <=> i = Len(w))

\* The frames of w a reader takes before it stops: up to and including the
\* first done frame, and none past a malformed frame.
RECURSIVE Readable(_, _)
Readable(w, i) ==
    IF i > Len(w) \/ w[i].kind = "bad" THEN i - 1
    ELSE IF w[i].done THEN i
    ELSE Readable(w, i + 1)

\* s is a prefix of t.
IsPrefix(s, t) == Len(s) <= Len(t) /\ SubSeq(t, 1, Len(s)) = s

DecodeLine == "Failed to decode response: %v"
StatusLine == "Ollama returned status %d"

\* C1: for a well-formed stream whose last frame has done=true, a call that has
\* finished (the deadline not having fired) is done, and its accumulated text,
\* the last text it passed to the result sink and the text the result entry
\* shows all equal the concatenation of the fragments of all frames in arrival
\* order.
C1_FinalTextIsConcatenation ==
    \A r \in Req :
        (code[r] = StatusOK /\ WellFormed(wire[r]) /\ Terminal(r)) =>
            /\ ~ctxDone[r] => outcome[r] = "done"
            /\ outcome[r] = "done" =>
                /\ acc[r] = Concat(wire[r])
                /\ delivered[r] # <<>>
                /\ delivered[r][Len(delivered[r])] = Concat(wire[r])
                /\ result = Concat(wire[r])

C1_Witness ==
    \E r \in Req :
        /\ pc[r] = "returned"
        /\ outcome[r] = "done"
        /\ WellFormed(wire[r])
        /\ Len(wire[r]) = 3
        /\ wire[r][1].response # wire[r][2].response

\* C2: the result sink is invoked once per successfully decoded frame, in stream
\* order, the i-th time with the concatenation of the fragments of frames 1..i,
\* so each text extends the one before; a call that has finished without the
\* deadline firing has decoded every frame up to where the stream stops it.
C2_OneCallbackPerFrameInOrder ==
    \A r \in Req :
        /\ Len(delivered[r]) = pos[r]
        /\ pos[r] <= Readable(wire[r], 1)
        /\ \A i \in 1..Len(delivered[r]) : delivered[r][i] = Concat(SubSeq(wire[r], 1, i))
        /\ \A i \in 1..(Len(delivered[r]) - 1) : IsPrefix(delivered[r][i], delivered[r][i + 1])
        /\ (Terminal(r) /\ code[r] = StatusOK /\ ~ctxDone[r]) => pos[r] = Readable(wire[r], 1)

C2_Witness ==
    \E r \in Req :
        /\ pc[r] = "stream"
        /\ Len(delivered[r]) = 3
        /\ delivered[r][3] = <<"a", "b", "a">>

\* C3: a frame that is not valid JSON aborts the call as failed: the frame is
\* not skipped and nothing after it is appended or delivered; unless the
\* deadline fired first, the failure is the decode error and every frame
\* before the malformed one was delivered.
C3_MalformedFrameAborts ==
    \A r \in Req :
        /\ \A i \in 1..pos[r] : wire[r][i].kind = "json"
        /\ \A j \in 1..Len(wire[r]) :
              (/\ Terminal(r)
               /\ code[r] = StatusOK
               /\ wire[r][j].kind = "bad"
               /\ \A i \in 1..(j - 1) : wire[r][i].kind = "json" /\ ~wire[r][i].done) =>
                  /\ outcome[r] = "failed"
                  /\ final[r].msg = DecodeLine
                  /\ Len(delivered[r]) <= j - 1
                  /\ acc[r] = Concat(SubSeq(wire[r], 1, pos[r]))
                  /\ ~ctxDone[r] =>
                        /\ final[r].detail = "invalid character"
                        /\ Len(delivered[r]) = j - 1

C3_Witness ==
    \E r \in Req :
        /\ pc[r] = "returned"
        /\ Len(wire[r]) = 3
        /\ wire[r][1].kind = "json"
        /\ wire[r][2].kind = "bad"
        /\ wire[r][3].kind = "json"
        /\ outcome[r] = "failed"
        /\ final[r].detail = "invalid character"
        /\ delivered[r] = <<wire[r][1].response>>

\* C4: a response with a non-2xx status ends the call as failed with the status
\* line carrying that code, and the body is never decoded: no frame is read and
\* the result sink gets no callback.
C4_Non2xxFailsWithoutCallbacks ==
    \A r \in Req :
        (code[r] # 0 /\ ~(code[r] \in 200..299)) =>
            /\ outcome[r] = "failed"
            /\ final[r] = Msg(StatusLine, r, code[r], "")
            /\ delivered[r] = <<>>
            /\ pos[r] = 0
            /\ buffered[r] = 0

C4_Witness ==
    \E r \in Req :
        /\ pc[r] = "returned"
        /\ code[r] = 500
        /\ Len(wire[r]) >= 1
        /\ wire[r][1].kind = "json"
        /\ final[r].code = 500

\* C5: reading stops at the first frame with done=true, and once a call is done
\* or failed its accumulator, the texts it has delivered and the result entry
\* never change again.
C5_TerminalIsFrozen ==
    /\ [](\A r \in Req : \A i \in 1..(pos[r] - 1) : ~wire[r][i].done)
    /\ [][\A r \in Req : Terminal(r) =>
              /\ acc'[r] = acc[r]
              /\ delivered'[r] = delivered[r]
              /\ pos'[r] = pos[r]
              /\ result' = result
              /\ Terminal(r)']_vars

C5_Witness ==
    \E r \in Req :
        /\ pc[r] = "returned"
        /\ tick[r] = "exited"
        /\ outcome[r] = "done"
        /\ pos[r] = 1
        /\ Len(wire[r]) = 3
        /\ wire[r][1].done
        /\ wire[r][2].kind = "json"
        /\ delivered[r] = <<wire[r][1].response>>

\* C6: a clean EOF with no done=true frame seen completes the call normally, as
\* done, with no failure status written and with the text the concatenation of
\* every frame of the stream; so does a stream of no frames, with empty text.
C6_CleanEofIsDone ==
    \A r \in Req :
        /\ lastErr[r] = "EOF" =>
              /\ outcome[r] = "done"
              /\ final[r] = NoStatus
              /\ status.req = r => status.msg = "Translating... %.1fs"
              /\ pos[r] = Len(wire[r])
              /\ acc[r] = Concat(wire[r])
              /\ \A i \in 1..Len(wire[r]) : wire[r][i].kind = "json" /\ ~wire[r][i].done
        /\ (/\ Terminal(r)
            /\ code[r] = StatusOK
            /\ ~ctxDone[r]
            /\ Readable(wire[r], 1) = Len(wire[r])
            /\ \A i \in 1..Len(wire[r]) : ~wire[r][i].done
            /\ lastErr[r] # "unexpected EOF") => lastErr[r] = "EOF"

C6_Witness ==
    \E r \in Req :
        /\ pc[r] = "returned"
        /\ lastErr[r] = "EOF"
        /\ Len(wire[r]) = 2
        /\ acc[r] = <<"a", "b">>

\* A stream of no frames ends done with empty text.
C6_WitnessEmptyStream ==
    \E r \in Req :
        /\ pc[r] = "returned"
        /\ lastErr[r] = "EOF"
        /\ wire[r] = <<>>
        /\ outcome[r] = "done"
        /\ acc[r] = <<>>

TickLine == "Translating... %.1fs"
DeadlineText == "context deadline exceeded"

\* C7: when the 30 s deadline fires before the call is terminal, the call ends
\* as failed with a timeout error, which is not the decode error, and the
\* result sink gets no callback of that call once the deadline has fired.
C7_DeadlineIsTimeoutError ==
    /\ [](\A r \in Req : (Terminal(r) /\ ctxDone[r]) =>
              /\ outcome[r] = "failed"
              /\ final[r].detail = DeadlineText
              /\ final[r].msg # DecodeLine)
    /\ [][\A r \in Req : ctxDone[r] => delivered'[r] = delivered[r]]_vars

\* C8: no handler starts a translation of an empty text: a call of
\* streamTranslateWithOllama never has the empty text as its argument, so no
\* HTTP request is made for one.
C8_EmptyTextRejected ==
    \A r \in Req : text[r] = <<>> => (pc[r] = "none" /\ ~issued[r])

\* C9: once a call has written its final status or has returned, its ticker
\* writes no "Translating..." line to the status label.
C9_TickerStopsAtTerminal ==
    [][\A r \in Req : (final[r] # NoStatus \/ pc[r] = "returned") =>
          ~(status' # status /\ status'.msg = TickLine /\ status'.req = r)]_vars

\* C10: at every moment at most one ticker goroutine is running.
C10_AtMostOneTicker ==
    Cardinality({r \in Req : tick[r] = "running"}) <= 1

TransportLine == "Failed to make request to Ollama: %v"
\* The status lines a call that ends done can leave on the label: its ticker's
\* line, or the line of the handler that started it.
DoneLines == {TickLine, "Translating input text...", "Translating clipboard text..."}

\* C11: a call that fails after k >= 1 frames were delivered is failed and not
\* done, the text of those k frames stays in its accumulator and in the result
\* entry, and what the window shows differs from what it shows after a finished
\* translation of the same text: the status label holds the failure line.
C11_PartialFailureIsMarked ==
    \A r \in Req :
        (outcome[r] = "failed" /\ pos[r] >= 1) =>
            /\ acc[r] = Concat(SubSeq(wire[r], 1, pos[r]))
            /\ result = acc[r]
            /\ status.msg \notin DoneLines

\* The locals of call r.
Locals(r) == <<pc[r], text[r], stopTick[r], tick[r], ctxDone[r], issued[r], code[r],
               wire[r], buffered[r], pos[r], acc[r], delivered[r], outcome[r],
               final[r], lastErr[r]>>

\* The outcome of a finished call that met status code c (0: no response) and
\* whose last Decode returned err.
AloneOutcome(c, err) == IF c = StatusOK /\ err \in {"", "EOF"} THEN "done" ELSE "failed"

\* C12: overlapping calls share no mutable state: a step changes the locals of
\* at most one call, each call accumulates in a builder of its own, and the
\* texts a call delivers and its outcome are those of the call running alone:
\* the i-th text is the concatenation of the first i frames of its own body,
\* and the outcome follows from its own response.
C12_CallsAreIndependent ==
    /\ [](\A r \in Req :
             /\ acc[r] = Concat(SubSeq(wire[r], 1, pos[r]))
             /\ Len(delivered[r]) = pos[r]
             /\ \A i \in 1..pos[r] : delivered[r][i] = Concat(SubSeq(wire[r], 1, i))
             /\ pos[r] <= Readable(wire[r], 1)
             /\ final[r].req \in {0, r}
             /\ Terminal(r) => outcome[r] = AloneOutcome(code[r], lastErr[r]))
    /\ [][Cardinality({r \in Req : Locals(r)' # Locals(r)}) <= 1]_vars

C12_Witness ==
    /\ pc[1] = "stream"
    /\ pc[2] = "stream"
    /\ delivered[1] = <<<<"a">>>>
    /\ delivered[2] = <<<<"b">>>>
    /\ result = <<"a">>

\* C13: at no moment are two calls of streamTranslateWithOllama in flight.
C13_AtMostOneInFlight ==
    Cardinality({r \in Req : pc[r] \in {"do", "stream", "returning"}}) <= 1

\* C14: a call fails only on a transport error, a decode error, a non-2xx status
\* or a timeout; a response with any 2xx status whose body is a well-formed
\* stream ending in done=true ends as done with its frames delivered.
C14_Any2xxWellFormedIsDone ==
    \A r \in Req :
        /\ outcome[r] = "failed" =>
              /\ final[r].msg \in {TransportLine, DecodeLine, StatusLine}
              /\ final[r].msg = StatusLine => ~(code[r] \in 200..299)
        /\ (code[r] \in 200..299 /\ WellFormed(wire[r]) /\ Terminal(r) /\ ~ctxDone[r]) =>
              /\ outcome[r] = "done"
              /\ acc[r] = Concat(wire[r])
              /\ Len(delivered[r]) = Len(wire[r])

\* t is s without its leading and trailing white space: a stretch of s with
\* only white space before and after it, that neither starts nor ends with one.
IsTrimOf(t, s) ==
    \E i \in 1..(Len(s) + 1), j \in 0..Len(s) :
        /\ t = SubSeq(s, i, j)
        /\ \A k \in 1..(i - 1) : s[k] \in {" ", "\n"}
        /\ \A k \in (j + 1)..Len(s) : s[k] \in {" ", "\n"}
        /\ t # <<>> => t[1] = "a" /\ t[Len(t)] = "a"

\* C15: a non-streaming call answered 200 with one JSON object returns that
\* object's response field without its leading and trailing white space,
\* nothing else changed, and no error; on a transport error, a status other
\* than 200 or a body that is not JSON it returns the empty text and an error.
C15_NonStreamingIsTrimmedResponse ==
    nsRet # NoReturn =>
        IF ~nsAnswer.doErr /\ nsAnswer.code = StatusOK /\ nsAnswer.json
        THEN nsRet.err = "" /\ IsTrimOf(nsRet.text, nsAnswer.response)
        ELSE nsRet.text = <<>> /\ nsRet.err \notin {"", "none"}

C15_Witness ==
    /\ nsAnswer.code = StatusOK
    /\ nsAnswer.response = <<" ", "a", "\n", "a", " ">>
    /\ nsRet = [text |-> <<"a", "\n", "a">>, err |-> ""]

\* A status other than 200 returns an error and no text, whatever the body.
C15_WitnessError ==
    /\ nsAnswer.code = 500
    /\ nsAnswer.json
    /\ nsAnswer.response = <<"a">>
    /\ nsRet.text = <<>>
    /\ nsRet.err = "Ollama returned status %d"

\* C16: on every return path of getSelectedTextWithCopy, and whether the
\* clipboard was empty or not, the clipboard after the call holds what it held
\* before the call.
C16_ClipboardRestored ==
    [][(gsPc # "idle" /\ gsPc' = "idle") => clipboard' = clipEntry]_vars

C17_WitnessFirst ==
    /\ fetched.err = ""
    /\ Len(fetched.models) = 2
    /\ fetched.was \notin Range(fetched.models)
    /\ modelName = fetched.models[1]
    /\ selected = modelName
    /\ status.msg = "Loaded %d models from Ollama server"

\* C18: no ticker outlives its call for good: on every return path the call
\* closes stopTick when it returns, and the ticker goroutine it started then
\* terminates, also with another call in flight.
C18_TickerTerminates ==
    /\ [](\A r \in Req : pc[r] = "returned" => stopTick[r] = "closed")
    /\ \A r \in Req : (pc[r] = "returning") ~> (tick[r] = "exited")

\* Both calls have returned, one failed and one done, and both tickers are gone,
\* the first one while the second call was still to return.
C18_Witness ==
    /\ pc[1] = "returned" /\ tick[1] = "exited" /\ outcome[1] = "failed"
    /\ pc[2] = "returning" /\ tick[2] = "running" /\ outcome[2] = "done"

====
